---- MODULE Spec2Model ----
(***************************************************************************)
(* condex: a character-stream pattern matcher (src/lib.rs).                *)
(*                                                                         *)
(* A pattern is a sequence of characters; a Condex walks it cyclically     *)
(* (Peekable<Cycle<Chars>>) while the caller feeds (character, offset)     *)
(* pairs.  A CondexBuilder owns a vector of (kind, Vec<Condex>) entries    *)
(* and fans every test call out to all of them with rayon.                 *)
(*                                                                         *)
(* Characters are one-character strings; a text or a pattern is a          *)
(* sequence of them.  "E" stands for a two-byte UTF-8 character.           *)
(***************************************************************************)
EXTENDS Integers, Sequences, FiniteSets, TLC

VARIABLES
    table,      \* the caller's pairs (kind, patterns) the builder was made from; never changes
    condexes,   \* CondexBuilder.condexes: sequence of [kind, comp], comp a sequence of Condex
    pending,    \* the rayon tasks of the running CondexBuilder::test that have not run yet
    fed,        \* the calls made so far: sequence of [c, i]
    source,     \* the text the caller scans when it is fixed from the start; <<>> when the
                \* caller's text is produced as the scan goes
    status,     \* "ok", or how the process stopped: "diverged" | "panicked"
    phase,      \* "testing", then "finalized" (finalize) or "resolved" (finalize_with_source)
    finals,     \* what finalize / finalize_with_source returned
    arg         \* the text given to finalize_with_source; NoArg before the call

vars == <<table, condexes, pending, fed, source, status, phase, finals, arg>>

\* stands where no text has been given yet; no text is equal to it
NoArg == <<"NoArg">>

-----------------------------------------------------------------------------
(* Bounds of the model. *)

MaxCalls == 3      \* characters of a generated text
MaxPatLen == 3     \* longest generated pattern

-----------------------------------------------------------------------------
(* Characters. *)

SPACE == " "
TAB == "\t"

\* char::len_utf8 as seen by str::char_indices: "E" models a two-byte character
Width(c) == IF c = "E" THEN 2 ELSE 1

\* char::is_whitespace, the predicate behind str::trim
IsWhitespace(c) == c \in {SPACE, TAB, "\n"}

-----------------------------------------------------------------------------
(* The pattern cursor: Peekable<Cycle<Chars>>, a string and a position.    *)

\* _new that counts every character, not only '-', into result_len
Condex__new_CountsAll(condex) ==
    [ condex        |-> [chars |-> condex, pos |-> 1],
      current_state |-> "Await",
      prev_i        |-> 0,
      condex_len    |-> Len(condex),
      result_len    |-> Len(condex),
      result        |-> <<>>,
      results       |-> <<>>,
      or_conditions |-> <<>> ]

\* Condex::_new
Condex__new(condex) ==
    [ condex        |-> [chars |-> condex, pos |-> 1],
      current_state |-> "Await",
      prev_i        |-> 0,
      condex_len    |-> Len(condex),
      result_len    |-> Cardinality({k \in 1..Len(condex) : condex[k] = "-"}),
      result        |-> <<>>,
      results       |-> <<>>,
      or_conditions |-> <<>> ]

\* Condex::condex_peek: the character under the cursor
condex_peek(con) == con.condex.chars[con.condex.pos]

\* Condex::condex_next: consume one character, wrapping at the end (Cycle)
condex_next(con) ==
    [con EXCEPT !.condex.pos = (con.condex.pos % Len(con.condex.chars)) + 1]

\* Condex::set_state
set_state(con, state) == [con EXCEPT !.current_state = state]

\* Condex::reset_state
reset_state(con) == set_state(con, "Await")

\* Vec::contains on or_conditions
Contains(v, c) == \E k \in 1..Len(v) : v[k] = c

\* SkipSpaces that skips nothing: a space of the pattern becomes a target
SkipSpaces_None(con, fuel) == [con |-> con, diverged |-> FALSE]

(* Condex::next, the space-skipping loop (lines 202-212).  The cursor is    *)
(* cyclic, so a loop that has consumed condex_len characters without        *)
(* leaving sees the same characters again and never leaves.                 *)
RECURSIVE SkipSpaces(_, _)
SkipSpaces(con, fuel) ==
    IF condex_peek(con) # SPACE THEN [con |-> con, diverged |-> FALSE]
    ELSE IF fuel = 0 THEN [con |-> con, diverged |-> TRUE]
    ELSE SkipSpaces(condex_next(con), fuel - 1)

(* Condex::next, the class-collecting loop (lines 224-232): push every      *)
(* character up to, not including, the next ']'.                            *)
RECURSIVE CollectClass(_, _)
CollectClass(con, fuel) ==
    IF condex_peek(con) = "]" THEN [con |-> con, diverged |-> FALSE]
    ELSE IF fuel = 0 THEN [con |-> con, diverged |-> TRUE]
    ELSE CollectClass(
            condex_next([con EXCEPT !.or_conditions = Append(@, condex_peek(con))]),
            fuel - 1)

(* Condex::next: resolve the current target.  Returns the automaton after   *)
(* the call, the target character, and whether the call fails to return     *)
(* (endless loop or endless recursion).                                     *)
RECURSIVE NextFrom(_, _)
NextFrom(con, fuel) ==
    LET sk == SkipSpaces(con, con.condex_len)
        c  == condex_peek(sk.con)
    IN  IF sk.diverged THEN [con |-> sk.con, target |-> "", diverged |-> TRUE]
        ELSE IF c = "-" THEN
            IF fuel = 0 THEN [con |-> sk.con, target |-> "", diverged |-> TRUE]
            ELSE NextFrom(condex_next(set_state(sk.con, "Record")), fuel - 1)
        ELSE IF c = "[" THEN
            LET cl == CollectClass(
                        condex_next([sk.con EXCEPT !.or_conditions = <<>>]),
                        con.condex_len)
            IN  IF cl.diverged THEN [con |-> cl.con, target |-> "", diverged |-> TRUE]
                ELSE IF cl.con.or_conditions = <<>>
                     THEN [con |-> condex_next(cl.con), target |-> "]", diverged |-> FALSE]
                     ELSE [con |-> cl.con, target |-> "]", diverged |-> FALSE]
        ELSE [con |-> sk.con, target |-> c, diverged |-> FALSE]

Condex_next(con) == NextFrom(con, con.condex_len)

\* the comparison of Condex::test (lines 168-172 and 175-179)
Satisfies(con, c, target_c) ==
    IF con.or_conditions = <<>> THEN c = target_c ELSE Contains(con.or_conditions, c)

\* a Span, Range<usize>
Span(start, end) == [start |-> start, end |-> end]

\* PushSpan whose span takes in the character that closed it (prev_i..=i)
PushSpan_Inclusive(con, i) ==
    LET pushed == [con EXCEPT !.result = Append(@, Span(con.prev_i, i + 1))]
    IN  IF Len(pushed.result) >= pushed.result_len
        THEN [pushed EXCEPT !.results = Append(@, pushed.result), !.result = <<>>]
        ELSE pushed

\* PushSpan with the completion test off by one (> for >=)
PushSpan_LateFlush(con, i) ==
    LET pushed == [con EXCEPT !.result = Append(@, Span(con.prev_i, i))]
    IN  IF Len(pushed.result) > pushed.result_len
        THEN [pushed EXCEPT !.results = Append(@, pushed.result), !.result = <<>>]
        ELSE pushed

\* Condex::test, the body of the Record arm on a successful comparison (lines 180-184)
PushSpan(con, i) ==
    LET pushed == [con EXCEPT !.result = Append(@, Span(con.prev_i, i))]
    IN  IF Len(pushed.result) >= pushed.result_len
        THEN [pushed EXCEPT !.results = Append(@, pushed.result), !.result = <<>>]
        ELSE pushed

\* OnMatch with the pending start left on the matched character (i for i + 1)
OnMatch_StartAtMatch(con, i) ==
    condex_next(reset_state([con EXCEPT !.prev_i = i, !.or_conditions = <<>>]))

\* OnMatch that forgets to move the pending start
OnMatch_StaleStart(con, i) ==
    condex_next(reset_state([con EXCEPT !.or_conditions = <<>>]))

\* Condex::test, the branch taken when the comparison succeeded (lines 191-194)
OnMatch(con, i) ==
    condex_next(reset_state([con EXCEPT !.prev_i = i + 1, !.or_conditions = <<>>]))

\* a mismatch that clears the class set
OnMismatch_ClearsClass(con) == [con EXCEPT !.or_conditions = <<>>]

\* OnMismatch that rewinds: cursor to the pattern start, Awaiting, captures dropped
OnMismatch_Rewind(con) ==
    [con EXCEPT !.condex.pos = 1, !.current_state = "Await", !.result = <<>>]

\* Condex::test, the branch taken when the comparison failed (line 196):
\* the Skip adapter is built and dropped without being driven
OnMismatch(con) == con

\* Condex::test that pushes a span on every successful comparison, Recording or not
Condex_test_PushAlways(con, c, i) ==
    IF c = SPACE THEN [con |-> con, outcome |-> "ok"]
    ELSE IF con.condex_len = 0 THEN [con |-> con, outcome |-> "panicked"]
    ELSE
      LET nx == Condex_next(con)
          matched == Satisfies(nx.con, c, nx.target)
          after == IF matched THEN PushSpan(nx.con, i) ELSE nx.con
      IN  IF nx.diverged THEN [con |-> nx.con, outcome |-> "diverged"]
          ELSE IF matched THEN [con |-> OnMatch(after, i), outcome |-> "ok"]
          ELSE [con |-> OnMismatch(after), outcome |-> "ok"]

\* Condex::test without the early return on a space
Condex_test_NoSkip(con, c, i) ==
    IF con.condex_len = 0 THEN [con |-> con, outcome |-> "panicked"]
    ELSE
      LET nx == Condex_next(con)
          matched == Satisfies(nx.con, c, nx.target)
          after == IF nx.con.current_state = "Record" /\ matched
                   THEN PushSpan(nx.con, i)
                   ELSE nx.con
      IN  IF nx.diverged THEN [con |-> nx.con, outcome |-> "diverged"]
          ELSE IF matched THEN [con |-> OnMatch(after, i), outcome |-> "ok"]
          ELSE [con |-> OnMismatch(after), outcome |-> "ok"]

(* Condex::test.  outcome is "ok" when the call returns, "panicked" when    *)
(* peek() finds no character (empty pattern), "diverged" when next() never  *)
(* returns.                                                                  *)
Condex_test(con, c, i) ==
    IF c = SPACE THEN [con |-> con, outcome |-> "ok"]
    ELSE IF con.condex_len = 0 THEN [con |-> con, outcome |-> "panicked"]
    ELSE
      LET nx == Condex_next(con)
          matched == Satisfies(nx.con, c, nx.target)
          after == IF nx.con.current_state = "Record" /\ matched
                   THEN PushSpan(nx.con, i)
                   ELSE nx.con
      IN  IF nx.diverged THEN [con |-> nx.con, outcome |-> "diverged"]
          ELSE IF matched THEN [con |-> OnMatch(after, i), outcome |-> "ok"]
          ELSE [con |-> OnMismatch(after), outcome |-> "ok"]

-----------------------------------------------------------------------------
(* Named patterns and texts, written out character by character. *)

P_AB == <<"a", "-", "b">>   \* 'a-b'
P_A_B == <<"a", SPACE, "-", SPACE, "b">>   \* 'a - b'
P_ABA == <<"a", "-", "b", "-", "a">>   \* 'a-b-a'
P_CLS == <<"[", "a", "b", "]", "-", "b">>   \* '[ab]-b'
P_CLS2 == <<"a", "-", "[", "a", "b", "]">>   \* 'a-[ab]'
P_CLSDASH == <<"[", "a", "-", "]", "-", "b">>   \* '[a-]-b'
P_CLSSP == <<"[", "a", SPACE, "]", "-", "b">>   \* '[a ]-b'
P_LONG == <<"-", "a", "-", "b">>   \* '-a-b'
P_TABPAT == <<"a", TAB, "-", "b">>   \* 'a\t-b'
P_EMPTYCLS == <<"[", "]", "-", "a">>   \* '[]-a'
P_OPEN == <<"a", "-", "[", "b">>   \* 'a-[b'
P_TWOCLS == <<"[", "a", "]", "[", "b", "]">>   \* '[a][b]'
P_MA == <<"-", "a">>   \* '-a'
P_LIT == <<"a", "b">>   \* 'ab'
P_AM == <<"a", "-">>   \* 'a-'
P_BRK == <<"]", "-", "a">>   \* ']-a'
D_TAG == <<"@", "-", "(">>   \* '@-('
D_NAMETYPE == <<"[", "(", ",", "]", SPACE, SPACE, "-", SPACE, SPACE, ":", SPACE, SPACE, "-", SPACE, "[", ",", "=", "]">>   \* '[(,]  -  :  - [,=]'
D_VALUE == <<"=", "-", "[", ",", ")", "]">>   \* '=-[,)]'
D_NAMETYPE1 == <<"[", "(", ",", "]", SPACE, "-", SPACE, ":", SPACE, "-", SPACE, "[", ",", "=", "]">>   \* '[(,] - : - [,=]'
S_DOC == <<"@", "h", "e", "l", "l", "o", "-", "m", "a", "n", "(", "n", "a", "m", "e", ":", SPACE, "t", "y", "p", "e", SPACE, "=", SPACE, "v", "a", "l", "u", "e", ",", SPACE, "n", "a", "m", "e", "2", ":", SPACE, "t", "y", "p", "e", "2", ",", SPACE, "n", "a", "m", "e", "3", ":", SPACE, "t", "y", "p", "e", "3", SPACE, "=", SPACE, "v", "a", "l", "u", "e", "3", ")">>   \* '@hello-man(name: type = value, name2: type2, name3: type3 = value3)'
S_TAG == <<"@", "h", "e", "l", "l", "o", "-", "m", "a", "n", "(", "n", "a", "m", "e", ":", SPACE, "t", "y", "p", "e", SPACE, "=", SPACE, "v", "a", "l", "u", "e", ")">>   \* '@hello-man(name: type = value)'
S_ARGS == <<"(", "n", "a", "m", "e", ":", SPACE, "t", "y", "p", "e", SPACE, "=", SPACE, "v", "a", "l", "u", "e", ")">>   \* '(name: type = value)'
S_TWICE == <<"a", "E", "b", SPACE, "a", "b", "E", "a", SPACE, "b">>   \* 'aEb abEa b'
S_TABBED == <<"a", TAB, "b">>   \* 'a\tb'
P_EMPTYA == <<"[", "]", "a", "-", "b">>   \* '[]a-b'
S_BRACKET == <<"]", "a", "b", "a", "b">>   \* ']abab'
P_WIDE == <<"E", "-", "b">>   \* 'E-b', E a two-byte character
S_WIDE == <<"E", "a", "b">>   \* 'Eab'

-----------------------------------------------------------------------------
(* Patterns, texts and builder tables the model is run on.                 *)

PatternChars == {"a", "b", "-", SPACE, "[", "]"}
InputChars == {"a", "b", SPACE, "E"}

\* every pattern of at most MaxPatLen characters
GeneratedPatterns == UNION {[1..n -> PatternChars] : n \in 0..MaxPatLen}

\* longer patterns, one per shape of the pattern language
ShapePatterns ==
    { P_AB, P_A_B, P_ABA, P_CLS, P_CLS2, P_CLSDASH, P_CLSSP, P_LONG, P_TABPAT, P_EMPTYCLS, P_OPEN, P_TWOCLS }

\* patterns without a class group, the subjects of whitespace insertion
PlainPatterns == { P_AB, P_ABA, P_MA, P_LIT, P_AM, P_BRK }

Runs == { <<SPACE>>, <<SPACE, SPACE>>, <<TAB>> }

\* pattern p with the run r inserted after its first k characters
InsertRun(p, k, r) == SubSeq(p, 1, k) \o r \o SubSeq(p, k + 1, Len(p))

\* the patterns and the source of tests::it_works and of the crate documentation
DocTable ==
    << [kind |-> "TagName",  patterns |-> << D_TAG >>],
       [kind |-> "NameType", patterns |-> << D_NAMETYPE >>],
       [kind |-> "Value",    patterns |-> << D_VALUE >>],
       [kind |-> "AllInOne", patterns |-> << D_TAG, D_NAMETYPE, D_VALUE >>] >>

One(p) == << [kind |-> "K1", patterns |-> <<p>>] >>
Two(p, q) == << [kind |-> "K1", patterns |-> <<p, q>>] >>

\* tables of several pairs: a kind given in two pairs, and two kinds
SharedKind == << [kind |-> "K1", patterns |-> <<P_MA>>], [kind |-> "K1", patterns |-> <<P_AM>>] >>
TwoKinds == << [kind |-> "K1", patterns |-> <<P_MA, P_LONG>>], [kind |-> "K2", patterns |-> <<P_AM>>] >>

\* builder tables run against generated texts
Tables ==
    {One(p) : p \in GeneratedPatterns \cup ShapePatterns}
    \cup {SharedKind, TwoKinds}
    \cup UNION { {Two(p, InsertRun(p, k, r)) : k \in 0..Len(p), r \in Runs} : p \in PlainPatterns }

\* builder tables run against one fixed text
Scenarios ==
    { [table |-> DocTable, text |-> S_DOC],
      [table |-> One(D_TAG), text |-> S_TAG],
      [table |-> One(D_NAMETYPE1), text |-> S_ARGS],
      [table |-> One(P_AB), text |-> S_TWICE],
      [table |-> One(P_AB), text |-> S_TABBED],
      [table |-> One(P_EMPTYA), text |-> S_BRACKET],
      [table |-> One(P_WIDE), text |-> S_WIDE] }

-----------------------------------------------------------------------------
(* CondexBuilder.                                                          *)

\* Condex::new: one Condex per pattern string
Condex_new(patterns) == [j \in 1..Len(patterns) |-> Condex__new(patterns[j])]

\* CondexBuilder::new: one (kind, component) entry per pair, in the order given
CondexBuilder_new(pairs) ==
    [e \in 1..Len(pairs) |-> [kind |-> pairs[e].kind, comp |-> Condex_new(pairs[e].patterns)]]

\* the Condex instances of a builder, as (entry, index) pairs
Ids(cs) == UNION { {<<e, j>> : j \in 1..Len(cs[e].comp)} : e \in 1..Len(cs) }

\* str::char_indices: the byte offset of the character after the first n of text
RECURSIVE ByteOffset(_, _)
ByteOffset(text, n) == IF n = 0 THEN 0 ELSE ByteOffset(text, n - 1) + Width(text[n])

\* the text made of the characters fed so far
Scanned == [k \in 1..Len(fed) |-> fed[k].c]

Quiet == pending = {} /\ status = "ok" /\ phase = "testing"

Init ==
    /\ \E sc \in {[table |-> t, text |-> <<>>] : t \in Tables} \cup Scenarios :
          /\ table = sc.table
          /\ condexes = CondexBuilder_new(sc.table)
          /\ source = sc.text
    /\ pending = {}
    /\ fed = <<>>
    /\ status = "ok"
    /\ phase = "testing"
    /\ finals = <<>>
    /\ arg = NoArg

\* CondexBuilder::test(c, i): hand the call to one rayon task per Condex
Dispatch(c, i) ==
    /\ fed' = Append(fed, [c |-> c, i |-> i])
    /\ pending' = Ids(condexes)
    /\ UNCHANGED <<table, condexes, source, status, phase, finals, arg>>

\* the documented loop, for (i, c) in source.char_indices() { builder.test(c, i) },
\* over a text fixed from the start
ScanSource ==
    /\ Quiet
    /\ Len(fed) < Len(source)
    /\ Dispatch(source[Len(fed) + 1], ByteOffset(source, Len(fed)))

\* the same loop over a text produced as the scan goes
ScanGenerated ==
    /\ Quiet
    /\ source = <<>>
    /\ Len(fed) < MaxCalls
    /\ \E c \in InputChars : Dispatch(c, ByteOffset(Scanned, Len(fed)))

\* a task that writes its result into the first Condex of its entry
Task_Aliased(e, j) ==
    /\ <<e, j>> \in pending
    /\ phase = "testing"
    /\ LET call == fed[Len(fed)]
           r == Condex_test(condexes[e].comp[j], call.c, call.i)
       IN  /\ pending' = pending \ {<<e, j>>}
           /\ IF r.outcome = "ok"
              THEN /\ condexes' = [condexes EXCEPT ![e].comp[1] = r.con]
                   /\ UNCHANGED status
              ELSE /\ status' = r.outcome
                   /\ UNCHANGED condexes
    /\ UNCHANGED <<table, fed, source, phase, finals, arg>>

\* one rayon task of CondexBuilder::test: con.test(c, i) on its own Condex
Task(e, j) ==
    /\ <<e, j>> \in pending
    /\ phase = "testing"
    /\ LET call == fed[Len(fed)]
           r == Condex_test(condexes[e].comp[j], call.c, call.i)
       IN  /\ pending' = pending \ {<<e, j>>}
           /\ IF r.outcome = "ok"
              THEN /\ condexes' = [condexes EXCEPT ![e].comp[j] = r.con]
                   /\ UNCHANGED status
              ELSE /\ status' = r.outcome
                   /\ UNCHANGED condexes
    /\ UNCHANGED <<table, fed, source, phase, finals, arg>>

-----------------------------------------------------------------------------
(* finalize and finalize_with_source.                                      *)

\* flat_map(..).collect(): the concatenation of a sequence of sequences, in order
RECURSIVE Flatten(_)
Flatten(ss) == IF ss = <<>> THEN <<>> ELSE Head(ss) \o Flatten(Tail(ss))

\* finalize that also hands out the group still in progress
FinalizeResults_WithPending(cs) ==
    [e \in 1..Len(cs) |->
        [kind |-> cs[e].kind,
         results |-> Flatten([j \in 1..Len(cs[e].comp) |->
                        IF cs[e].comp[j].result = <<>> THEN cs[e].comp[j].results
                        ELSE Append(cs[e].comp[j].results, cs[e].comp[j].result)])]]

\* CondexBuilder::finalize: per entry, the results of its Condexes one after another
FinalizeResults(cs) ==
    [e \in 1..Len(cs) |->
        [kind |-> cs[e].kind,
         results |-> Flatten([j \in 1..Len(cs[e].comp) |-> cs[e].comp[j].results])]]

\* str::is_char_boundary
IsCharBoundary(text, b) == \E n \in 0..Len(text) : ByteOffset(text, n) = b

\* the number of characters of text that lie before byte offset b, a char boundary
CharsBefore(text, b) == CHOOSE n \in 0..Len(text) : ByteOffset(text, n) = b

None == "None"

\* a get that yields the empty slice where the range is not one of text
StrGet_Lossy(text, span) ==
    IF /\ span.start <= span.end
       /\ IsCharBoundary(text, span.start)
       /\ IsCharBoundary(text, span.end)
    THEN SubSeq(text, CharsBefore(text, span.start) + 1, CharsBefore(text, span.end))
    ELSE <<>>

\* str::get(Range<usize>): the slice, or None when the range is not one of text
StrGet(text, span) ==
    IF /\ span.start <= span.end
       /\ IsCharBoundary(text, span.start)
       /\ IsCharBoundary(text, span.end)
    THEN SubSeq(text, CharsBefore(text, span.start) + 1, CharsBefore(text, span.end))
    ELSE None

\* trim that only trims the start
Trim_StartOnly(t) == IF t # <<>> /\ IsWhitespace(Head(t)) THEN Tail(t) ELSE t

\* str::trim_start / trim_end / trim
RECURSIVE TrimStart(_)
TrimStart(t) == IF t # <<>> /\ IsWhitespace(Head(t)) THEN TrimStart(Tail(t)) ELSE t

RECURSIVE TrimEnd(_)
TrimEnd(t) ==
    IF t # <<>> /\ IsWhitespace(t[Len(t)]) THEN TrimEnd(SubSeq(t, 1, Len(t) - 1)) ELSE t

Trim(t) == TrimEnd(TrimStart(t))

\* every span of every completed group of a builder
AllSpans(cs) ==
    UNION { UNION { UNION { { cs[e].comp[j].results[g][k]
                              : k \in 1..Len(cs[e].comp[j].results[g]) }
                            : g \in 1..Len(cs[e].comp[j].results) }
                    : j \in 1..Len(cs[e].comp) }
            : e \in 1..Len(cs) }

\* finalize_with_source that leaves empty substrings out of a group
ResolveResults_SkipsEmpty(cs, text) ==
    [e \in 1..Len(cs) |->
        [kind |-> cs[e].kind,
         results |-> Flatten([j \in 1..Len(cs[e].comp) |->
                        [g \in 1..Len(cs[e].comp[j].results) |->
                            SelectSeq(
                                [k \in 1..Len(cs[e].comp[j].results[g]) |->
                                    Trim(StrGet(text, cs[e].comp[j].results[g][k]))],
                                LAMBDA t : t # <<>>)]])]]

\* CondexBuilder::finalize_with_source, when every get(span) is Some
ResolveResults(cs, text) ==
    [e \in 1..Len(cs) |->
        [kind |-> cs[e].kind,
         results |-> Flatten([j \in 1..Len(cs[e].comp) |->
                        [g \in 1..Len(cs[e].comp[j].results) |->
                            [k \in 1..Len(cs[e].comp[j].results[g]) |->
                                Trim(StrGet(text, cs[e].comp[j].results[g][k]))]]])]]

\* the caller finalizes after the loop
ScanOver == Quiet /\ (source # <<>> => Len(fed) = Len(source))

Finalize ==
    /\ ScanOver
    /\ finals' = FinalizeResults(condexes)
    /\ phase' = "finalized"
    /\ condexes' = <<>>
    /\ UNCHANGED <<table, pending, fed, source, status, arg>>

\* the texts a caller passes: the text it scanned, or another one, here its first half
SourceArgs == {Scanned, SubSeq(Scanned, 1, Len(Scanned) \div 2)}

FinalizeWithSource(text) ==
    /\ ScanOver
    /\ arg' = text
    /\ condexes' = <<>>
    /\ IF \A sp \in AllSpans(condexes) : StrGet(text, sp) # None
       THEN /\ finals' = ResolveResults(condexes, text)
            /\ phase' = "resolved"
            /\ UNCHANGED status
       ELSE /\ status' = "panicked"     \* unwrap() on None
            /\ UNCHANGED <<finals, phase>>
    /\ UNCHANGED <<table, pending, fed, source>>

Next ==
    \/ ScanSource
    \/ ScanGenerated
    \/ \E e \in 1..Len(condexes) : \E j \in 1..Len(condexes[e].comp) : Task(e, j)
    \/ Finalize
    \/ \E text \in SourceArgs : FinalizeWithSource(text)

Spec == Init /\ [][Next]_vars

-----------------------------------------------------------------------------
(* Vocabulary of the properties.                                           *)

Con(id) == condexes[id[1]].comp[id[2]]
ConAfter(id) == condexes'[id[1]].comp[id[2]]
Pat(id) == table[id[1]].patterns[id[2]]

\* the calls the Condex id has been given: all of fed, less the running call while its task waits
Seen(id) == IF id \in pending THEN SubSeq(fed, 1, Len(fed) - 1) ELSE fed

\* this step is the task of Condex id, running the call LastCall
Ran(id) == id \in pending /\ id \notin pending'
LastCall == fed[Len(fed)]

\* the '-' characters of a pattern
CountMarkers(p) == Cardinality({k \in 1..Len(p) : p[k] = "-"})

\* a pattern without its spaces
RECURSIVE Strip(_)
Strip(p) ==
    IF p = <<>> THEN <<>>
    ELSE IF Head(p) = SPACE THEN Strip(Tail(p)) ELSE <<Head(p)>> \o Strip(Tail(p))

\* a pattern character that stands for itself
Literal(ch) == ch \notin {"-", "[", SPACE}

\* the comparison the call (c, i) meets on the automaton con
Compares(con, c) == c # SPACE /\ con.condex_len > 0 /\ ~Condex_next(con).diverged
Succeeds(con, c) ==
    Compares(con, c) /\ Satisfies(Condex_next(con).con, c, Condex_next(con).target)
Fails(con, c) ==
    Compares(con, c) /\ ~Satisfies(Condex_next(con).con, c, Condex_next(con).target)

-----------------------------------------------------------------------------
(* C1: every completed capture-span-group has exactly as many spans as    *)
(* the pattern has '-' characters; a group is appended only by the push    *)
(* that brings the in-progress list to that count, and the in-progress     *)
(* list is empty right after.                                              *)

C1_GroupSizes ==
    \A id \in Ids(condexes) : \A g \in 1..Len(Con(id).results) :
        Len(Con(id).results[g]) = CountMarkers(Pat(id))

C1_AppendOnlyWhenFull ==
    \A id \in Ids(condexes) \cap Ids(condexes') :
        ConAfter(id).results # Con(id).results =>
            /\ Ran(id)
            /\ Len(Con(id).result) + 1 = CountMarkers(Pat(id))
            /\ ConAfter(id).results =
                  Append(Con(id).results,
                         Append(Con(id).result, Span(Con(id).prev_i, LastCall.i)))
            /\ ConAfter(id).result = <<>>

C1_CompleteGroups == [](C1_GroupSizes) /\ [][C1_AppendOnlyWhenFull]_vars

\* a pattern with two markers has completed a group
C1_Witness ==
    \E id \in Ids(condexes) :
        CountMarkers(Pat(id)) = 2 /\ Len(Con(id).results) >= 1

-----------------------------------------------------------------------------
(* C2: after test(c, i) with a non-whitespace c that fails the comparison  *)
(* the automaton is back in its initial condition: Awaiting, cursor on     *)
(* the pattern's first element, in-progress captures empty.                *)

C2_ResetOnMismatch ==
    [][\A id \in Ids(condexes) \cap Ids(condexes') :
          (Ran(id) /\ ~IsWhitespace(LastCall.c) /\ Fails(Con(id), LastCall.c)) =>
              /\ ConAfter(id).current_state = "Await"
              /\ ConAfter(id).condex.pos = 1
              /\ ConAfter(id).result = <<>>]_vars

(* C2 as amended: a failed comparison resets nothing.  Pending start,      *)
(* in-progress captures and completed groups are as before the call, the   *)
(* automaton is as target resolution left it (Recording once a marker was  *)
(* passed), and the next call resolves the same target again from the      *)
(* same place (a target resolved from an empty class has been consumed).   *)

C2_KeepsOnMismatch ==
    [][\A id \in Ids(condexes) \cap Ids(condexes') :
          (Ran(id) /\ ~IsWhitespace(LastCall.c) /\ Fails(Con(id), LastCall.c)) =>
              LET nx == Condex_next(Con(id))
                  after == ConAfter(id)
              IN  /\ after = nx.con
                  /\ after.prev_i = Con(id).prev_i
                  /\ after.result = Con(id).result
                  /\ after.results = Con(id).results
                  /\ (Con(id).current_state = "Record" => after.current_state = "Record")
                  /\ (after.or_conditions # <<>> \/ condex_peek(after) = nx.target) =>
                        /\ Condex_next(after).con = after
                        /\ Condex_next(after).target = nx.target]_vars

\* a comparison has failed after a capture marker was passed and a span recorded
C2_Witness ==
    \E id \in Ids(condexes) :
        /\ id \notin pending
        /\ fed # <<>>
        /\ Literal(LastCall.c)
        /\ Con(id).current_state = "Record"
        /\ Con(id).condex.pos > 1
        /\ Con(id).result # <<>>

-----------------------------------------------------------------------------
(* C3: for a pattern "t-u" of two literals around one capture marker, the  *)
(* completed groups are the occurrences t ... u of the input, one group    *)
(* per occurrence, in the order they completed; the cursor wraps after u,  *)
(* so the k-th match is the k-th entry.                                    *)

\* the first call at or after index k that feeds ch; 0 when there is none
FirstAt(calls, k, ch) ==
    IF \E m \in k..Len(calls) : calls[m].c = ch
    THEN CHOOSE m \in k..Len(calls) :
            calls[m].c = ch /\ \A n \in k..(m - 1) : calls[n].c # ch
    ELSE 0

\* the occurrences t ... u in calls from index k on, each as the group it captures
RECURSIVE Occurrences(_, _, _, _)
Occurrences(calls, k, t, u) ==
    LET a == FirstAt(calls, k, t)
        b == FirstAt(calls, a + 1, u)
    IN  IF a = 0 \/ b = 0 THEN <<>>
        ELSE << <<Span(calls[a].i + 1, calls[b].i)>> >> \o Occurrences(calls, b + 1, t, u)

TriggerCaptureCloser(p) ==
    /\ Len(Strip(p)) = 3
    /\ Literal(Strip(p)[1]) /\ Strip(p)[2] = "-" /\ Literal(Strip(p)[3])

C3_OneGroupPerOccurrence ==
    \A id \in Ids(condexes) :
        TriggerCaptureCloser(Pat(id)) =>
            Con(id).results = Occurrences(Seen(id), 1, Strip(Pat(id))[1], Strip(Pat(id))[3])

\* two occurrences have been matched, the second after the cursor wrapped
C3_Witness ==
    \E id \in Ids(condexes) :
        /\ TriggerCaptureCloser(Pat(id))
        /\ Len(Con(id).results) = 2
        /\ Con(id).results[1][1].end < Con(id).results[2][1].start

-----------------------------------------------------------------------------
(* C4: the pattern "@-(" fed "@hello-man(name: type = value)" ends with    *)
(* exactly one group of one span, from offset 1 (just after '@') to        *)
(* offset 10 (the first '('), the text "hello-man"; the '-' of the input   *)
(* neither closes nor disturbs the capture.                                *)

HELLO_MAN == <<"h", "e", "l", "l", "o", "-", "m", "a", "n">>

C4_TagName ==
    (source = S_TAG /\ table = One(D_TAG)) =>
        /\ (ScanOver /\ Len(fed) = Len(S_TAG)) =>
              /\ Con(<<1, 1>>).results = << <<Span(1, 10)>> >>
              /\ Con(<<1, 1>>).result = <<>>
              /\ StrGet(S_TAG, Con(<<1, 1>>).results[1][1]) = HELLO_MAN
        /\ (Quiet /\ Len(fed) \in 1..10) =>
              /\ Con(<<1, 1>>).results = <<>>
              /\ Con(<<1, 1>>).result = <<>>
              /\ Len(fed) >= 2 => Con(<<1, 1>>).current_state = "Record"
        /\ (phase = "finalized" /\ status = "ok") =>
              finals = << [kind |-> "K1", results |-> << <<Span(1, 10)>> >>] >>
        /\ (phase = "resolved" /\ status = "ok") =>
              finals = << [kind |-> "K1", results |-> << <<HELLO_MAN>> >>] >>

\* the whole text has been fed and resolved against the source
C4_Witness ==
    /\ source = S_TAG /\ table = One(D_TAG)
    /\ Len(fed) = Len(S_TAG)
    /\ phase = "resolved" /\ status = "ok"
    /\ finals[1].results # <<>>

-----------------------------------------------------------------------------
(* C5: the pattern "[(,] - : - [,=]" fed "(name: type = value)" gives      *)
(* exactly one group of two spans, the first from just after '(' to the    *)
(* offset of ':', the second from just after ':' to the offset of '=';     *)
(* trimmed they are "name" and "type"; the rest of the input produces no   *)
(* further group.                                                          *)

NAME == <<"n", "a", "m", "e">>
TYPE == <<"t", "y", "p", "e">>

C5_NameType ==
    (source = S_ARGS /\ table = One(D_NAMETYPE1)) =>
        /\ (ScanOver /\ Len(fed) = Len(S_ARGS)) =>
              /\ Con(<<1, 1>>).results = << <<Span(1, 5), Span(6, 12)>> >>
              /\ Con(<<1, 1>>).result = <<>>
        /\ (Quiet /\ Len(fed) >= 13) =>
              Con(<<1, 1>>).results = << <<Span(1, 5), Span(6, 12)>> >>
        /\ (phase = "finalized" /\ status = "ok") =>
              finals = << [kind |-> "K1", results |-> << <<Span(1, 5), Span(6, 12)>> >>] >>
        /\ (phase = "resolved" /\ status = "ok") =>
              finals = << [kind |-> "K1", results |-> << <<NAME, TYPE>> >>] >>

\* the whole text has been fed and resolved against the source
C5_Witness ==
    /\ source = S_ARGS /\ table = One(D_NAMETYPE1)
    /\ Len(fed) = Len(S_ARGS)
    /\ phase = "resolved" /\ status = "ok"
    /\ Len(finals[1].results) = 1

-----------------------------------------------------------------------------
(* C6: a pattern without a capture marker never enters Recording, never    *)
(* pushes a span, and contributes no group at finalize.                    *)

Markerless(e) == \A j \in 1..Len(table[e].patterns) : CountMarkers(table[e].patterns[j]) = 0

C6_NoMarkerNoCapture ==
    /\ \A id \in Ids(condexes) :
          CountMarkers(Pat(id)) = 0 =>
              /\ Con(id).current_state = "Await"
              /\ Con(id).result = <<>>
              /\ Con(id).results = <<>>
    /\ (phase = "finalized" /\ status = "ok") =>
          \A e \in 1..Len(table) : Markerless(e) => finals[e].results = <<>>

\* the markerless pattern "[a][b]" has matched both its classes and wrapped
C6_Witness ==
    \E id \in Ids(condexes) :
        /\ Pat(id) = P_TWOCLS
        /\ CountMarkers(Pat(id)) = 0
        /\ Con(id).prev_i = 2
        /\ Con(id).condex.pos = 1

-----------------------------------------------------------------------------
(* C7: for a pattern P without a class group and P' made from P by         *)
(* inserting a run of whitespace characters anywhere, the two automata     *)
(* fed the same input hold identical completed-groups lists.               *)

\* q is p with a run of characters of the set ws inserted at one place
Inserted(p, q, ws) ==
    /\ Len(q) > Len(p)
    /\ \E k \in 0..Len(p) :
          /\ SubSeq(q, 1, k) = SubSeq(p, 1, k)
          /\ SubSeq(q, k + 1 + Len(q) - Len(p), Len(q)) = SubSeq(p, k + 1, Len(p))
          /\ \A m \in (k + 1)..(k + Len(q) - Len(p)) : q[m] \in ws

NoClass(p) == \A k \in 1..Len(p) : p[k] # "["

WhitespaceChars == {SPACE, TAB, "\n"}

SameInput(id1, id2) == (id1 \in pending) = (id2 \in pending)

C7_WhitespaceTransparent ==
    \A id1, id2 \in Ids(condexes) :
        (/\ NoClass(Pat(id1))
         /\ Inserted(Pat(id1), Pat(id2), WhitespaceChars)
         /\ SameInput(id1, id2)
         /\ status = "ok") =>
            Con(id1).results = Con(id2).results

(* C7 as amended: the inserted run is made of space characters (' ');      *)
(* other whitespace in a pattern is a literal target.                      *)

C7_SpaceTransparent ==
    \A id1, id2 \in Ids(condexes) :
        (/\ NoClass(Pat(id1))
         /\ Inserted(Pat(id1), Pat(id2), {SPACE})
         /\ SameInput(id1, id2)
         /\ status = "ok") =>
            /\ Con(id1).results = Con(id2).results
            /\ Con(id1).result = Con(id2).result

\* a pattern and the same pattern with two spaces inserted have both completed a group
C7_Witness ==
    \E id1, id2 \in Ids(condexes) :
        /\ NoClass(Pat(id1))
        /\ Inserted(Pat(id1), Pat(id2), {SPACE})
        /\ Len(Pat(id2)) = Len(Pat(id1)) + 2
        /\ pending = {}
        /\ Con(id1).results # <<>>
        /\ Con(id2).results # <<>>

-----------------------------------------------------------------------------
(* C8: test(c, i) with c a whitespace character leaves the whole automaton *)
(* unchanged.                                                              *)

C8_WhitespaceIgnored ==
    [][\A id \in Ids(condexes) \cap Ids(condexes') :
          (Ran(id) /\ IsWhitespace(LastCall.c)) => ConAfter(id) = Con(id)]_vars

(* C8 as amended: test(c, i) with c the space character ' ' leaves the     *)
(* whole automaton unchanged and cannot fail; any other whitespace         *)
(* character is compared like every other character.                       *)

C8_SpaceIgnored ==
    [][\A id \in Ids(condexes) \cap Ids(condexes') :
          (Ran(id) /\ LastCall.c = SPACE) => (ConAfter(id) = Con(id) /\ status' = status)]_vars

\* a space was fed to an automaton that is Recording with a capture in progress
C8_Witness ==
    \E id \in Ids(condexes) :
        /\ fed # <<>>
        /\ LastCall.c = SPACE
        /\ id \notin pending
        /\ Con(id).current_state = "Record"
        /\ Con(id).result # <<>>

-----------------------------------------------------------------------------
(* C9: with strictly increasing offsets, the spans of every group,         *)
(* completed or in progress, do not overlap and start at strictly          *)
(* increasing offsets: each span starts at or after the end of the one     *)
(* before it.                                                              *)

StrictlyIncreasing(calls) == \A m, n \in 1..Len(calls) : m < n => calls[m].i < calls[n].i

Ordered(g) ==
    \A k \in 1..(Len(g) - 1) :
        /\ g[k + 1].start >= g[k].end
        /\ g[k + 1].start > g[k].start

C9_SpansOrdered ==
    StrictlyIncreasing(fed) =>
        \A id \in Ids(condexes) :
            /\ Ordered(Con(id).result)
            /\ \A g \in 1..Len(Con(id).results) : Ordered(Con(id).results[g])

\* a completed group of two spans, the second starting right where the first ended plus one
C9_Witness ==
    /\ StrictlyIncreasing(fed)
    /\ \E id \in Ids(condexes) : \E g \in 1..Len(Con(id).results) :
          /\ Len(Con(id).results[g]) = 2
          /\ Con(id).results[g][1].end > Con(id).results[g][1].start

-----------------------------------------------------------------------------
(* C10: the tasks of one CondexBuilder::test call may run in any order;    *)
(* none touches another Condex, and each Condex is at every moment in the  *)
(* state it reaches when fed its calls alone, one after the other.         *)

\* Condex::test applied call after call to a fresh Condex; a call that does not return stops it
RECURSIVE Alone(_, _)
Alone(p, calls) ==
    IF calls = <<>> THEN [con |-> Condex__new(p), outcome |-> "ok"]
    ELSE LET before == Alone(p, SubSeq(calls, 1, Len(calls) - 1))
             call == calls[Len(calls)]
             r == Condex_test(before.con, call.c, call.i)
         IN  IF before.outcome # "ok" THEN before
             ELSE IF r.outcome # "ok" THEN [con |-> before.con, outcome |-> r.outcome]
             ELSE r

C10_AsIfAlone ==
    \A id \in Ids(condexes) : Con(id) = Alone(Pat(id), Seen(id)).con

C10_TasksDisjoint ==
    \A id \in Ids(condexes) \cap Ids(condexes') :
        (pending' # {} /\ ~Ran(id)) => ConAfter(id) = Con(id)

C10_Independent == [](C10_AsIfAlone) /\ [][C10_TasksDisjoint]_vars

\* a later Condex of the table has run its task, and matched, while an earlier one still waits
C10_Witness ==
    \E id1, id2 \in Ids(condexes) :
        /\ id1[1] < id2[1] \/ (id1[1] = id2[1] /\ id1[2] < id2[2])
        /\ id1 \in pending
        /\ id2 \notin pending
        /\ Len(fed) >= 2
        /\ Con(id2).prev_i = LastCall.i + 1
        /\ Succeeds(Con(id1), LastCall.c)

-----------------------------------------------------------------------------
(* C11: finalize returns one result sequence per category, also for a      *)
(* category given in more than one pair, holding exactly the completed     *)
(* groups of every Condex built for that category, each pattern's groups   *)
(* in completion order, and no in-progress span.                           *)

Finalizing == phase = "testing" /\ phase' = "finalized"

Kinds == {table[e].kind : e \in 1..Len(table)}

\* the completed groups of the Condexes of the pairs in es, with the pair and Condex they come from
GroupsOf(es) ==
    UNION { UNION { {<<e, j, g>> : g \in 1..Len(condexes[e].comp[j].results)}
                    : j \in 1..Len(condexes[e].comp) }
            : e \in es }

C11_OneSequencePerCategory ==
    [][Finalizing =>
          \A k \in Kinds :
              /\ Cardinality({e \in 1..Len(finals') : finals'[e].kind = k}) = 1
              /\ \A e \in 1..Len(finals') :
                    finals'[e].kind = k =>
                        Len(finals'[e].results) =
                            Cardinality(GroupsOf({d \in 1..Len(table) : table[d].kind = k}))]_vars

(* C11 as amended: finalize returns a sequence with one (category, groups) *)
(* entry per pair given at construction, in the order given, so a category *)
(* given in several pairs has several entries; each entry holds exactly    *)
(* the completed groups of the Condexes of its pair, pattern after pattern *)
(* in the pair's order, each pattern's groups in completion order, and no  *)
(* in-progress span.                                                       *)

\* the number of completed groups of the first j Condexes of entry e
RECURSIVE GroupsBefore(_, _)
GroupsBefore(e, j) ==
    IF j = 0 THEN 0 ELSE GroupsBefore(e, j - 1) + Len(condexes[e].comp[j].results)

C11_OneSequencePerPair ==
    [][Finalizing =>
          /\ Len(finals') = Len(table)
          /\ \A e \in 1..Len(table) :
                /\ finals'[e].kind = table[e].kind
                /\ Len(finals'[e].results) = GroupsBefore(e, Len(condexes[e].comp))
                /\ \A j \in 1..Len(condexes[e].comp) :
                      \A g \in 1..Len(condexes[e].comp[j].results) :
                          finals'[e].results[GroupsBefore(e, j - 1) + g] =
                              condexes[e].comp[j].results[g]]_vars

\* a kind given in two pairs was finalized with groups in both entries
C11_Witness ==
    /\ phase = "finalized"
    /\ table = SharedKind
    /\ Len(finals) = 2
    /\ finals[1].results # <<>>
    /\ finals[2].results # <<>>

-----------------------------------------------------------------------------
(* C12: for the same test calls, what finalize_with_source(text) returns   *)
(* has the shape of what finalize() returns (same categories, groups per   *)
(* category, spans per group, order), and each substring is the slice of   *)
(* text at the corresponding span without its leading and trailing         *)
(* whitespace.                                                             *)

Resolving == phase = "testing" /\ phase' = "resolved"

\* the characters of text whose bytes lie in the range sp
Slice(text, sp) ==
    LET inside == {n \in 1..Len(text) :
                      sp.start <= ByteOffset(text, n - 1) /\ ByteOffset(text, n) <= sp.end}
    IN  IF inside = {} THEN <<>>
        ELSE SubSeq(text, CHOOSE n \in inside : \A m \in inside : n <= m,
                          CHOOSE n \in inside : \A m \in inside : n >= m)

\* t is s without the whitespace at its two ends
IsTrimOf(t, s) ==
    \E a \in 0..Len(s) : \E b \in a..Len(s) :
        /\ t = SubSeq(s, a + 1, b)
        /\ \A n \in 1..a : IsWhitespace(s[n])
        /\ \A n \in (b + 1)..Len(s) : IsWhitespace(s[n])
        /\ t # <<>> => (~IsWhitespace(t[1]) /\ ~IsWhitespace(t[Len(t)]))

SameShapeResolved(spans, strs, text) ==
    /\ Len(strs) = Len(spans)
    /\ \A e \in 1..Len(spans) :
          /\ strs[e].kind = spans[e].kind
          /\ Len(strs[e].results) = Len(spans[e].results)
          /\ \A g \in 1..Len(spans[e].results) :
                /\ Len(strs[e].results[g]) = Len(spans[e].results[g])
                /\ \A k \in 1..Len(spans[e].results[g]) :
                      IsTrimOf(strs[e].results[g][k], Slice(text, spans[e].results[g][k]))

C12_ResolvedLikeFinalize ==
    [][Resolving => SameShapeResolved(FinalizeResults(condexes), finals', arg')]_vars

\* the documented table and source, resolved: the last entry holds the groups of its three patterns
C12_Witness ==
    /\ phase = "resolved"
    /\ status = "ok"
    /\ table = DocTable
    /\ Len(finals[4].results) >= 3
    /\ \E g \in 1..Len(finals[4].results) : Len(finals[4].results[g]) = 2

-----------------------------------------------------------------------------
(* C13: a pattern with an unterminated '[' group, or with a '-' that no    *)
(* target follows, is rejected at construction or at the first test call:  *)
(* a call on such a pattern fails fatally, changes nothing in the          *)
(* automaton, and never runs without end.                                  *)

\* a '[' that no ']' follows in the pattern
UnterminatedGroup(p) ==
    \E k \in 1..Len(p) : p[k] = "[" /\ \A m \in (k + 1)..Len(p) : p[m] # "]"

\* a '-' that only '-' and spaces follow in the pattern
DanglingMarker(p) ==
    \E k \in 1..Len(p) : p[k] = "-" /\ \A m \in (k + 1)..Len(p) : p[m] \in {"-", SPACE}

Malformed(p) == UnterminatedGroup(p) \/ DanglingMarker(p)

C13_MalformedRejected ==
    [][\A id \in Ids(condexes) :
          (Ran(id) /\ Malformed(Pat(id)) /\ LastCall.c # SPACE) =>
              /\ status' = "panicked"
              /\ condexes' = condexes]_vars

\* the ways the code goes on instead: resolving the target never ends ...
C13_RunsOn ==
    \E id \in Ids(condexes) : Malformed(Pat(id)) /\ status = "diverged"

\* ... or the automaton matches input and completes a group
C13_SilentMatch ==
    \E id \in Ids(condexes) :
        Malformed(Pat(id)) /\ status = "ok" /\ Con(id).results # <<>>

-----------------------------------------------------------------------------
(* C14: finalize_with_source(text) fails fatally and returns nothing       *)
(* whenever some completed span is not a valid range of text, its start    *)
(* or end past the end of text or off a character boundary of text.        *)

\* the byte offsets at which a character of text starts, and the length of text
Boundaries(text) == {ByteOffset(text, n) : n \in 0..Len(text)}

ValidRange(text, sp) ==
    sp.start <= sp.end /\ sp.start \in Boundaries(text) /\ sp.end \in Boundaries(text)

\* the spans of the completed groups, as finalize_with_source meets them
CompletedSpans ==
    UNION { UNION { {Con(id).results[g][k] : k \in 1..Len(Con(id).results[g])}
                    : g \in 1..Len(Con(id).results) }
            : id \in Ids(condexes) }

ResolveCalled == arg = NoArg /\ arg' # NoArg

C14_InvalidSpanIsFatal ==
    [][(ResolveCalled /\ \E sp \in CompletedSpans : ~ValidRange(arg', sp)) =>
          /\ status' = "panicked"
          /\ phase' = "testing"
          /\ finals' = <<>>]_vars

\* the call was given a shorter text than the one scanned, and failed
C14_Witness ==
    /\ status = "panicked"
    /\ arg # NoArg
    /\ Len(arg) < Len(fed)

-----------------------------------------------------------------------------
(* C15: after a test(c, i) whose comparison succeeds the pending start     *)
(* offset is i + 1, the class set is empty, the state is Awaiting, and     *)
(* the cursor has consumed exactly the matched target, the literal or the  *)
(* whole [...] group with its ']', so that it rests on the pattern         *)
(* element that follows the target.                                        *)

\* the pattern read twice over, as the cycling cursor reads it
Twice(p) == p \o p

\* where the target that is resolved from cursor position pos starts
TargetStart(p, pos) ==
    CHOOSE k \in pos..(pos + Len(p)) :
        /\ Twice(p)[k] \notin {SPACE, "-"}
        /\ \A m \in pos..(k - 1) : Twice(p)[m] \in {SPACE, "-"}

\* where it ends: on the literal itself, or on the ']' that closes the group
TargetEnd(p, pos) ==
    LET k == TargetStart(p, pos)
    IN  IF Twice(p)[k] # "[" THEN k
        ELSE CHOOSE m \in (k + 1)..(2 * Len(p)) :
                 Twice(p)[m] = "]" /\ \A n \in (k + 1)..(m - 1) : Twice(p)[n] # "]"

\* the cursor position just past the target
AfterTarget(p, pos) == (TargetEnd(p, pos) % Len(p)) + 1

C15_SuccessConsumesTarget ==
    [][\A id \in Ids(condexes) :
          (Ran(id) /\ Succeeds(Con(id), LastCall.c)) =>
              /\ ConAfter(id).prev_i = LastCall.i + 1
              /\ ConAfter(id).or_conditions = <<>>
              /\ ConAfter(id).current_state = "Await"
              /\ ConAfter(id).condex.pos = AfterTarget(Pat(id), Con(id).condex.pos)]_vars

\* a target that comes from a class group with nothing in it
EmptyClassAt(p, pos) ==
    /\ Twice(p)[TargetStart(p, pos)] = "["
    /\ TargetEnd(p, pos) = TargetStart(p, pos) + 1

\* the same, for every success but that on the ']' of an empty class group
C15_ExceptEmptyClass ==
    [][\A id \in Ids(condexes) :
          (/\ Ran(id) /\ Succeeds(Con(id), LastCall.c)
           /\ ~EmptyClassAt(Pat(id), Con(id).condex.pos)) =>
              /\ ConAfter(id).prev_i = LastCall.i + 1
              /\ ConAfter(id).or_conditions = <<>>
              /\ ConAfter(id).current_state = "Await"
              /\ ConAfter(id).condex.pos = AfterTarget(Pat(id), Con(id).condex.pos)]_vars

-----------------------------------------------------------------------------
(* The reading of a well-formed pattern that the specification gives:      *)
(* a sequence of targets, each a set of characters (one for a literal,     *)
(* the members for a class group), each marked when a '-' stands before    *)
(* it; and the run of such a sequence over the calls made so far.          *)

RECURSIVE ParseTargets(_, _, _)
ParseTargets(p, k, marked) ==
    IF k > Len(p) THEN <<>>
    ELSE IF p[k] = SPACE THEN ParseTargets(p, k + 1, marked)
    ELSE IF p[k] = "-" THEN ParseTargets(p, k + 1, TRUE)
    ELSE IF p[k] = "["
    THEN LET m == CHOOSE m \in (k + 1)..Len(p) :
                      p[m] = "]" /\ \A n \in (k + 1)..(m - 1) : p[n] # "]"
         IN  <<[members |-> {p[n] : n \in (k + 1)..(m - 1)}, marked |-> marked]>>
                 \o ParseTargets(p, m + 1, FALSE)
    ELSE <<[members |-> {p[k]}, marked |-> marked]>> \o ParseTargets(p, k + 1, FALSE)

Targets(p) == ParseTargets(p, 1, FALSE)

\* every group is closed and has a member, every '-' has a target after it
WellFormed(p) ==
    /\ ~Malformed(p)
    /\ Targets(p) # <<>>
    /\ \A e \in 1..Len(Targets(p)) : Targets(p)[e].members # {}

\* e: the target waited for; p: one past the last character that satisfied a
\* target; hits: the calls that satisfied a target; spans: the spans recorded
RECURSIVE RefRun(_, _)
RefRun(ts, calls) ==
    IF calls = <<>> THEN [e |-> 1, p |-> 0, hits |-> {}, spans |-> <<>>]
    ELSE LET before == RefRun(ts, SubSeq(calls, 1, Len(calls) - 1))
             call == calls[Len(calls)]
         IN  IF call.c = SPACE \/ call.c \notin ts[before.e].members THEN before
             ELSE [e |-> (before.e % Len(ts)) + 1,
                   p |-> call.i + 1,
                   hits |-> before.hits \cup {Len(calls)},
                   spans |-> IF ts[before.e].marked
                             THEN Append(before.spans, [start |-> before.p, end |-> call.i])
                             ELSE before.spans]

-----------------------------------------------------------------------------
(* C16: every span recorded is [p, i), i the offset of the input character *)
(* that satisfied the target after a capture marker, p one more than the   *)
(* offset of the most recent earlier character that satisfied a target, 0  *)
(* if none; a span is pushed only by a successful comparison in Recording, *)
(* never in Awaiting.                                                      *)

\* every span the automaton has pushed, in the order pushed
Pushed(con) == Flatten(con.results) \o con.result

C16_SpansAsRead ==
    \A id \in Ids(condexes) :
        WellFormed(Pat(id)) =>
            Pushed(Con(id)) = RefRun(Targets(Pat(id)), Seen(id)).spans

C16_PushOnlyRecording ==
    \A id \in Ids(condexes) \cap Ids(condexes') :
        LET r == Condex_next(Con(id))
        IN  /\ Pushed(ConAfter(id)) # Pushed(Con(id)) =>
                  /\ Ran(id) /\ Succeeds(Con(id), LastCall.c)
                  /\ r.con.current_state = "Record"
                  /\ Pushed(ConAfter(id)) =
                        Append(Pushed(Con(id)), [start |-> Con(id).prev_i, end |-> LastCall.i])
            /\ (Ran(id) /\ Succeeds(Con(id), LastCall.c) /\ r.con.current_state = "Await") =>
                  Pushed(ConAfter(id)) = Pushed(Con(id))

C16_SpanBounds == [](C16_SpansAsRead) /\ [][C16_PushOnlyRecording]_vars

\* two spans recorded, the second starting one past the character that closed the first
C16_Witness ==
    \E id \in Ids(condexes) :
        /\ WellFormed(Pat(id))
        /\ Len(Pushed(Con(id))) >= 2
        /\ Pushed(Con(id))[2].start = Pushed(Con(id))[1].end + 1
        /\ Pushed(Con(id))[1].start > 0
        /\ Pushed(Con(id))[1].end > Pushed(Con(id))[1].start

-----------------------------------------------------------------------------
(* C17: when the target waited for is a class group [x1...xn], n >= 1, a   *)
(* non-whitespace input character satisfies it exactly when it is one of   *)
(* x1...xn, on the first character tested against the group and on every   *)
(* later one tested after earlier ones were rejected; a literal target is  *)
(* satisfied only by the equal character.                                  *)

\* the target the pattern's reading waits for when the call at hand is made
Awaited(id) == Targets(Pat(id))[RefRun(Targets(Pat(id)), Seen(id)).e]

C17_SatisfiedIffMember ==
    [][\A id \in Ids(condexes) :
          (Ran(id) /\ WellFormed(Pat(id)) /\ ~IsWhitespace(LastCall.c)) =>
              /\ Compares(Con(id), LastCall.c)
              /\ Succeeds(Con(id), LastCall.c) <=> LastCall.c \in Awaited(id).members
              /\ ConAfter(id).prev_i = LastCall.i + 1 <=> LastCall.c \in Awaited(id).members]_vars

\* 'a-[ab]' over 'aEb': E was rejected by the group, then b, its second member, satisfied it
C17_Witness ==
    \E id \in Ids(condexes) :
        /\ Pat(id) = P_CLS2
        /\ id \notin pending
        /\ Len(fed) = 3 /\ fed[2].c = "E" /\ fed[3].c = "b"
        /\ Con(id).results = <<<<[start |-> 1, end |-> 3]>>>>

-----------------------------------------------------------------------------
(* C18: a failed comparison is a no-op on the match attempt: the cursor    *)
(* is not rewound to the pattern start, the pending start offset, the      *)
(* in-progress list and the completed groups are as before the call, and   *)
(* the automaton keeps waiting for the same target, in Recording if a      *)
(* capture marker was already passed.                                      *)

\* what the next comparison of the automaton is made against, and in which state
Waits(con) ==
    LET r == Condex_next(con)
    IN  [target |-> r.target, class |-> r.con.or_conditions, state |-> r.con.current_state]

C18_FailureKeepsTarget ==
    [][\A id \in Ids(condexes) :
          (Ran(id) /\ Fails(Con(id), LastCall.c)) =>
              /\ ConAfter(id).prev_i = Con(id).prev_i
              /\ ConAfter(id).result = Con(id).result
              /\ ConAfter(id).results = Con(id).results
              /\ ConAfter(id).condex.pos = Condex_next(Con(id)).con.condex.pos
              /\ Waits(ConAfter(id)) = Waits(Con(id))]_vars

\* the same, for every failure but that against the ']' of an empty class group
C18_ExceptEmptyClass ==
    [][\A id \in Ids(condexes) :
          (/\ Ran(id) /\ Fails(Con(id), LastCall.c)
           /\ ~EmptyClassAt(Pat(id), Con(id).condex.pos)) =>
              /\ ConAfter(id).prev_i = Con(id).prev_i
              /\ ConAfter(id).result = Con(id).result
              /\ ConAfter(id).results = Con(id).results
              /\ ConAfter(id).condex.pos = Condex_next(Con(id)).con.condex.pos
              /\ Waits(ConAfter(id)) = Waits(Con(id))]_vars

-----------------------------------------------------------------------------
(* C19: a class group with nothing between '[' and ']' is a malformed-     *)
(* pattern error when the cursor resolves it: the call fails, the group is *)
(* never made a match target and nothing of the pattern is consumed.       *)

C19_EmptyClassRejected ==
    [][\A id \in Ids(condexes) :
          (/\ Ran(id) /\ Compares(Con(id), LastCall.c)
           /\ EmptyClassAt(Pat(id), Con(id).condex.pos)) =>
              /\ status' = "panicked"
              /\ condexes' = condexes]_vars

\* what the code does instead: ']' is the target, and a ']' in the input
\* satisfies it and takes the pattern element after the group with it
C19_EmptyClassMatched ==
    \E id \in Ids(condexes) :
        /\ Pat(id) = P_EMPTYA
        /\ Len(Seen(id)) = 1 /\ Seen(id)[1].c = "]"
        /\ Con(id).prev_i = 1
        /\ Con(id).condex.pos = 4

-----------------------------------------------------------------------------
(* C20: when a text is scanned with the byte offsets of char_indices and   *)
(* the same text is given to finalize_with_source, every completed span is *)
(* a valid range of it, also when a character that satisfied a target is   *)
(* wider than one byte, and the resolution does not fail.                  *)

C20_SameTextResolves ==
    [][(ResolveCalled /\ arg' = Scanned) =>
          /\ \A sp \in CompletedSpans : ValidRange(arg', sp)
          /\ status' = "ok"
          /\ phase' = "resolved"]_vars

\* a pattern none of whose characters is wider than one byte
Narrow(p) == \A k \in 1..Len(p) : Width(p[k]) = 1

\* the same, when no pattern character, and so no satisfying character, is wide
C20_NarrowTargetsResolve ==
    [][(/\ ResolveCalled /\ arg' = Scanned
        /\ \A id \in Ids(condexes) : Narrow(Pat(id))) =>
          /\ \A sp \in CompletedSpans : ValidRange(arg', sp)
          /\ status' = "ok"
          /\ phase' = "resolved"]_vars

====
